---- MODULE Spec2Model ----
(***************************************************************************)
(* Model of torille/envs/solo_envs.py: the three reward functions and the  *)
(* two single-body adapters SoloToriEnv and SoloContToriEnv.               *)
(*                                                                         *)
(* Numbers.  Continuous action components are kept in tenths (3.9 is 39).  *)
(* Injuries are kept in steps of 1/InjuryUnit.  log10 and the negation of  *)
(* a logarithm are kept symbolically (see Lin, Log10Div4, Neg).  Limb      *)
(* positions are drawn from vectors with an integral Euclidean norm, on    *)
(* which Sqrt is exact.                                                    *)
(***************************************************************************)
EXTENDS Integers, Sequences, FiniteSets, TLC

VARIABLES
    kwargs,       \* keyword arguments handed to the constructor
    platform,     \* sys.platform
    cls,          \* the class being constructed
    inst,         \* attributes set on self so far (function name -> value)
    effects,      \* what construction did, in order
    ctor,         \* "new", "returned" or "raised"
    env,          \* which adapter preprocesses the action: "disc" or "cont"
    action,       \* the action object owned by the caller
    orig,         \* value of that object when the caller created it
    arg,          \* value of the object at entry of the last call
    dual,         \* dual action returned by the last call
    first_dual,   \* dual action returned by the first call
    calls,        \* number of _preprocess_action calls made with the object
    old_state,    \* simulator state before the step
    new_state,    \* simulator state after the step
    reward,       \* [fn, val] of the last reward computed
    obs,          \* observation returned by the last _preprocess_observation
    obs_calls     \* number of _preprocess_observation calls on new_state

ctorVars == <<kwargs, platform, cls, inst, effects, ctor>>
actVars == <<env, action, orig, arg, dual, first_dual, calls>>
stateVars == <<old_state, new_state, reward, obs, obs_calls>>
vars == <<kwargs, platform, cls, inst, effects, ctor, env, action, orig, arg,
          dual, first_dual, calls, old_state, new_state, reward, obs,
          obs_calls>>

----------------------------------------------------------------------------
(* Bounds of the model *)

NUM_JOINTS == 2
NUM_LIMBS == 2
MaxPlayers == 2
MaxCalls == 2
InjuryUnit == 2
MaxInjury == 6

(* Program constants *)

NUM_JOINT_STATES == 4
NUM_GRIPS == 2
ONE == 10
JOINT_CLIP_HIGH == 49
GRIP_CLIP_HIGH == 19
BOX_HIGH == 39
OBS_BOUND == 30

NUM_CONTROLLABLES == NUM_JOINTS + NUM_GRIPS

----------------------------------------------------------------------------
(* Helpers standing for numpy / builtin operations *)

Ones(n) == [i \in 1..n |-> 1]

Min(a, b) == IF a < b THEN a ELSE b

Max(a, b) == IF a > b THEN a ELSE b

\* np.clip(x, lo, hi)
Clip(x, lo, hi) == Min(Max(x, lo), hi)

\* np.floor on a value in tenths; the result is still a float (in tenths)
Floor(x) == (x \div ONE) * ONE

\* ndarray.astype(np.int32) on a value in tenths: truncation towards zero
AsInt32(x) == IF x >= 0 THEN x \div ONE ELSE -((-x) \div ONE)

----------------------------------------------------------------------------
(* Construction: SoloToriEnv.__init__ and SoloContToriEnv.__init__ *)

RewardFuncs == {"reward_self_destruct", "reward_stay_safe", "reward_run_away"}

Keys == {"reward_func", "draw_game", "matchframes"}

\* the values a keyword argument can carry
KeyValues(k) == IF k = "reward_func" THEN RewardFuncs ELSE {"off", "on"}

\* every set of keyword arguments over Keys, reward_func present or not
KwargsSet == UNION {[K -> RewardFuncs \cup {"off", "on"}] : K \in SUBSET Keys}

WellTypedKwargs == {kw \in KwargsSet : \A k \in DOMAIN kw : kw[k] \in KeyValues(k)}

Platforms == {"win32", "linux"}

NoAttrs == [k \in {} |-> "none"]

\* spaces.MultiDiscrete given [min, max] pairs (the win32 branch)
MultiDiscreteMinMax(pairs) == [kind |-> "MultiDiscrete", encoding |-> "minmax", dims |-> pairs]

\* spaces.MultiDiscrete given plain sizes (the other branch)
MultiDiscreteNvec(sizes) == [kind |-> "MultiDiscrete", encoding |-> "nvec", dims |-> sizes]

\* spaces.Box(low, high, shape=(n,)); low and high in the unit of the caller
Box(low, high, n) == [kind |-> "Box", low |-> low, high |-> high, shape |-> n]

\* the list expression of lines 72-73
Win32Dims == [i \in 1..(NUM_JOINTS + NUM_GRIPS) |->
                IF i <= NUM_JOINTS THEN <<0, NUM_JOINT_STATES - 1>> ELSE <<0, 1>>]

\* the list expression of lines 77-78
OtherDims == [i \in 1..(NUM_JOINTS + NUM_GRIPS) |->
                IF i <= NUM_JOINTS THEN NUM_JOINT_STATES ELSE 1]

SoloActionSpace(plat) ==
    IF plat = "win32" THEN MultiDiscreteMinMax(Win32Dims)
                      ELSE MultiDiscreteNvec(OtherDims)

ObservationSpace == Box(-OBS_BOUND, OBS_BOUND, NUM_LIMBS * 3)

ContActionSpace == Box(0, BOX_HIGH, NUM_CONTROLLABLES)

\* the attributes and the effects once kwargs["reward_func"] was found
AfterLookup(kw, space) ==
    [attrs |-> ("reward_func" :> kw["reward_func"]) @@ ("action_space" :> space)
                 @@ ("observation_space" :> ObservationSpace),
     effects |-> <<"ToriEnv.__init__", "set reward_func", "set action_space",
                   "set observation_space">>,
     ctor |-> "returned"]

\* kwargs["reward_func"] raised: nothing was set after the base constructor
AfterKeyError ==
    [attrs |-> NoAttrs,
     effects |-> <<"ToriEnv.__init__", "KeyError">>,
     ctor |-> "raised"]

\* def __init__(self, **kwargs) of SoloToriEnv, as a whole
SoloToriEnvInitResult(kw, plat) ==
    IF "reward_func" \in DOMAIN kw THEN AfterLookup(kw, SoloActionSpace(plat))
                                   ELSE AfterKeyError

\* SoloContToriEnvInitResult with the action space set before the lookup
SoloContToriEnvInitResult_spaceFirst(kw) ==
    IF "reward_func" \in DOMAIN kw
    THEN AfterLookup(kw, ContActionSpace)
    ELSE [attrs |-> ("action_space" :> ContActionSpace),
          effects |-> <<"ToriEnv.__init__", "set action_space", "KeyError">>,
          ctor |-> "raised"]

\* def __init__(self, **kwargs) of SoloContToriEnv, as a whole
SoloContToriEnvInitResult(kw) ==
    IF "reward_func" \in DOMAIN kw THEN AfterLookup(kw, ContActionSpace)
                                   ELSE AfterKeyError

SoloToriEnv_init ==
    /\ ctor = "new"
    /\ cls = "SoloToriEnv"
    /\ LET r == SoloToriEnvInitResult(kwargs, platform)
       IN /\ inst' = r.attrs
          /\ effects' = r.effects
          /\ ctor' = r.ctor
    /\ UNCHANGED <<kwargs, platform, cls, actVars, stateVars>>

SoloContToriEnv_init ==
    /\ ctor = "new"
    /\ cls = "SoloContToriEnv"
    /\ LET r == SoloContToriEnvInitResult(kwargs)
       IN /\ inst' = r.attrs
          /\ effects' = r.effects
          /\ ctor' = r.ctor
    /\ UNCHANGED <<kwargs, platform, cls, actVars, stateVars>>

\* the actions a MultiDiscrete space admits: a [min, max] pair is the range
\* min..max, a plain size n is the n choices 0..n-1
Admissible(space) ==
    {a \in [1..Len(space.dims) -> 0..NUM_JOINT_STATES] :
        \A i \in 1..Len(space.dims) :
            IF space.encoding = "minmax"
            THEN space.dims[i][1] <= a[i] /\ a[i] <= space.dims[i][2]
            ELSE 0 <= a[i] /\ a[i] < space.dims[i]}

\* NUM_JOINTS entries in 0..NUM_JOINT_STATES-1 followed by two binary grips
DiscreteActions ==
    {a \in [1..(NUM_JOINTS + NUM_GRIPS) -> 0..(NUM_JOINT_STATES - 1)] :
        \A i \in (NUM_JOINTS + 1)..(NUM_JOINTS + NUM_GRIPS) : a[i] \in {0, 1}}

----------------------------------------------------------------------------
(* _preprocess_action of the two adapters *)

\* the continuous components the action object is drawn from, in tenths
ContGrid == {-15, -10, -1, 0, 9, 10, 19, 20, 39, 40, 45}

ContInputs == [1..NUM_CONTROLLABLES -> ContGrid]

\* the declared space of SoloContToriEnv: every component in [0, 3.9]
InContSpace(a) == \A i \in 1..Len(a) : ContActionSpace.low <= a[i] /\ a[i] <= ContActionSpace.high

\* SoloPreprocessAction with the loop running over every entry, grips included
SoloPreprocessAction_allEntries(ty, data) ==
    LET local == [i \in 1..Len(data) |-> data[i] + 1]
    IN [ret |-> <<local, Ones(NUM_CONTROLLABLES)>>,
        obj |-> IF ty # "list" THEN data ELSE local]

\* SoloToriEnv._preprocess_action on an object of type ty holding data.
\* local is the list the loop increments: the caller's own list when the
\* object is a list, a copy built by list(action) otherwise.
SoloPreprocessAction(ty, data) ==
    LET local == [i \in 1..Len(data) |->
                     IF i <= NUM_JOINTS THEN data[i] + 1 ELSE data[i]]
    IN [ret |-> <<local, Ones(NUM_CONTROLLABLES)>>,
        obj |-> IF ty # "list" THEN data ELSE local]

\* ContAddOne with the increment left out
ContAddOne_none(data) == [i \in 1..Len(data) |-> data[i]]

\* line 123: action += 1, in place
ContAddOne(data) == [i \in 1..Len(data) |-> data[i] + ONE]

\* line 125: action[:-2] = np.floor(np.clip(action[:-2], 0, 4.9))
ContJoints(data) ==
    [i \in 1..Len(data) |->
        IF i <= Len(data) - 2 THEN Floor(Clip(data[i], 0, JOINT_CLIP_HIGH))
                              ELSE data[i]]

\* ContGrip without undoing the increment of line 123
ContGrip_noMinusOne(data, k) ==
    [data EXCEPT ![k] = Floor(Clip(data[k], 0, GRIP_CLIP_HIGH))]

\* lines 126, 127: action[k] = np.floor(np.clip(action[k]-1, 0, 1.9))
ContGrip(data, k) ==
    [data EXCEPT ![k] = Floor(Clip(data[k] - ONE, 0, GRIP_CLIP_HIGH))]

\* SoloContToriEnv._preprocess_action on an array holding data: every
\* assignment up to line 127 writes into the caller's array, astype copies
SoloContPreprocessAction(data) ==
    LET a1 == ContAddOne(data)
        a2 == ContJoints(a1)
        a3 == ContGrip(a2, Len(a2) - 1)
        a4 == ContGrip(a3, Len(a3))
        ints == [i \in 1..Len(a4) |-> AsInt32(a4[i])]
    IN [ret |-> <<ints, Ones(NUM_CONTROLLABLES)>>,
        obj |-> a4]

SoloToriEnv_preprocess_action ==
    /\ env = "disc"
    /\ calls < MaxCalls
    /\ LET r == SoloPreprocessAction(action.type, action.data)
       IN /\ arg' = action.data
          /\ dual' = r.ret
          /\ first_dual' = IF calls = 0 THEN r.ret ELSE first_dual
          /\ action' = [action EXCEPT !.data = r.obj]
    /\ calls' = calls + 1
    /\ UNCHANGED <<env, orig, ctorVars, stateVars>>

SoloContToriEnv_preprocess_action ==
    /\ env = "cont"
    /\ calls < MaxCalls
    /\ LET r == SoloContPreprocessAction(action.data)
       IN /\ arg' = action.data
          /\ dual' = r.ret
          /\ first_dual' = IF calls = 0 THEN r.ret ELSE first_dual
          /\ action' = [action EXCEPT !.data = r.obj]
    /\ calls' = calls + 1
    /\ UNCHANGED <<env, orig, ctorVars, stateVars>>

----------------------------------------------------------------------------
(* Simulator states *)

Origin == <<0, 0, 0>>

\* limb positions with an integral Euclidean norm (0, 5, 10, 3)
PosSet == {Origin, <<3, 4, 0>>, <<6, 8, 0>>, <<1, 2, 2>>}

\* positions of the limbs that reward_run_away is not meant to read
OtherPos == {<<3, 4, 0>>, <<1, 2, 2>>}

\* positions the observation is drawn from
ObsPos == {<<3, 4, 0>>, <<6, 8, 0>>, <<1, 2, 2>>}

Limbs == 1..NUM_LIMBS

RestingBody == [l \in Limbs |-> Origin]

State(injury, positions) == [plr0_injury |-> injury, limb_positions |-> positions]

RestingState == State(0, <<RestingBody, RestingBody>>)

\* two-player states that differ in plr0_injury only
InjuryStates == {State(i, <<RestingBody, RestingBody>>) : i \in 0..MaxInjury}

\* two-player states: player 1's head anywhere in PosSet
RunAwayStates ==
    {State(0, pp) : pp \in {q \in [1..2 -> [Limbs -> PosSet]] :
        \A p \in 1..2 : \A l \in Limbs : (p # 1 \/ l # 1) => q[p][l] \in OtherPos}}

\* states of 1..MaxPlayers players
ObsStates ==
    UNION {{State(0, pp) : pp \in [1..n -> [Limbs -> ObsPos]]} : n \in 1..MaxPlayers}

----------------------------------------------------------------------------
(* Reward functions *)

\* a reward that is the injury difference n itself (n steps of 1/InjuryUnit)
Lin(n) == [kind |-> "lin", num |-> n, neg |-> FALSE]

\* log10(reward) / 4 of an injury difference of n steps, kept symbolically
Log10Div4(n) == [kind |-> "log", num |-> n, neg |-> FALSE]

\* unary minus
Neg(v) == IF v.kind = "lin" THEN [v EXCEPT !.num = -v.num]
                            ELSE [v EXCEPT !.neg = ~v.neg]

\* reward_self_destruct compressing from a difference of 1 on
reward_self_destruct_geq(old, new) ==
    LET r == new.plr0_injury - old.plr0_injury
    IN IF r >= InjuryUnit THEN Log10Div4(r) ELSE Lin(r)

reward_self_destruct(old, new) ==
    LET r == new.plr0_injury - old.plr0_injury
    IN IF r > InjuryUnit THEN Log10Div4(r) ELSE Lin(r)

\* reward_stay_safe without the final negation
reward_stay_safe_noNeg(old, new) ==
    LET r == -(old.plr0_injury - new.plr0_injury)
    IN IF r > InjuryUnit THEN Log10Div4(r) ELSE Lin(r)

reward_stay_safe(old, new) ==
    LET r == -(old.plr0_injury - new.plr0_injury)
    IN Neg(IF r > InjuryUnit THEN Log10Div4(r) ELSE Lin(r))

\* np.sum(pos**2)
SumSq(pos) == pos[1] * pos[1] + pos[2] * pos[2] + pos[3] * pos[3]

\* np.sqrt, exact on the perfect squares the model draws
Sqrt(n) == CHOOSE r \in 0..n : r * r = n

\* reward_run_away reading the head of player 2
reward_run_away_opponent(old, new) ==
    LET old_pos == old.limb_positions[2][1]
        new_pos == new.limb_positions[2][1]
    IN Sqrt(SumSq(new_pos)) - Sqrt(SumSq(old_pos))

reward_run_away(old, new) ==
    LET old_pos == old.limb_positions[1][1]
        new_pos == new.limb_positions[1][1]
    IN Sqrt(SumSq(new_pos)) - Sqrt(SumSq(old_pos))

NoReward == [fn |-> "none", val |-> 0]

reward_self_destruct_call ==
    /\ reward.fn = "none"
    /\ reward' = [fn |-> "reward_self_destruct",
                  val |-> reward_self_destruct(old_state, new_state)]
    /\ UNCHANGED <<old_state, new_state, obs, obs_calls, ctorVars, actVars>>

reward_stay_safe_call ==
    /\ reward.fn = "none"
    /\ reward' = [fn |-> "reward_stay_safe",
                  val |-> reward_stay_safe(old_state, new_state)]
    /\ UNCHANGED <<old_state, new_state, obs, obs_calls, ctorVars, actVars>>

reward_run_away_call ==
    /\ reward.fn = "none"
    /\ reward' = [fn |-> "reward_run_away",
                  val |-> reward_run_away(old_state, new_state)]
    /\ UNCHANGED <<old_state, new_state, obs, obs_calls, ctorVars, actVars>>

----------------------------------------------------------------------------
(* _preprocess_observation of the two adapters *)

RECURSIVE Ravel(_)
\* ndarray.ravel() of a (limbs, 3) array
Ravel(rows) == IF rows = <<>> THEN <<>> ELSE Head(rows) \o Ravel(Tail(rows))

\* SoloPreprocessObservation slicing the last player instead of the first
SoloPreprocessObservation_lastPlayer(state) ==
    Ravel(state.limb_positions[Len(state.limb_positions)])

\* SoloToriEnv._preprocess_observation
SoloPreprocessObservation(state) == Ravel(state.limb_positions[1])

\* SoloContToriEnv._preprocess_observation
SoloContPreprocessObservation(state) == Ravel(state.limb_positions[1])

SoloToriEnv_preprocess_observation ==
    /\ env = "disc"
    /\ obs_calls < MaxCalls
    /\ obs' = SoloPreprocessObservation(new_state)
    /\ obs_calls' = obs_calls + 1
    /\ UNCHANGED <<old_state, new_state, reward, ctorVars, actVars>>

SoloContToriEnv_preprocess_observation ==
    /\ env = "cont"
    /\ obs_calls < MaxCalls
    /\ obs' = SoloContPreprocessObservation(new_state)
    /\ obs_calls' = obs_calls + 1
    /\ UNCHANGED <<old_state, new_state, reward, ctorVars, actVars>>

----------------------------------------------------------------------------
(* Specifications *)

ctorIdle ==
    /\ kwargs = NoAttrs
    /\ platform = "linux"
    /\ cls = "SoloToriEnv"
    /\ inst = NoAttrs
    /\ effects = <<>>
    /\ ctor = "new"

actIdle ==
    /\ env = "disc"
    /\ action = [type |-> "list", data |-> <<>>]
    /\ orig = <<>>
    /\ arg = <<>>
    /\ dual = <<>>
    /\ first_dual = <<>>
    /\ calls = 0

stateIdle ==
    /\ old_state = RestingState
    /\ new_state = RestingState
    /\ reward = NoReward
    /\ obs = <<>>
    /\ obs_calls = 0

\* construction of either adapter on either platform
InitCtor ==
    /\ kwargs \in WellTypedKwargs
    /\ platform \in Platforms
    /\ cls \in {"SoloToriEnv", "SoloContToriEnv"}
    /\ inst = NoAttrs
    /\ effects = <<>>
    /\ ctor = "new"
    /\ actIdle
    /\ stateIdle

NextCtor == SoloToriEnv_init \/ SoloContToriEnv_init

SpecCtor == InitCtor /\ [][NextCtor]_vars

\* a caller creates an action object and hands it to _preprocess_action,
\* possibly several times
InitAct ==
    /\ env \in {"disc", "cont"}
    /\ \/ /\ env = "disc"
          /\ action \in [type : {"list", "array"}, data : DiscreteActions]
       \/ /\ env = "cont"
          /\ action \in [type : {"array"}, data : ContInputs]
    /\ orig = action.data
    /\ arg = <<>>
    /\ dual = <<>>
    /\ first_dual = <<>>
    /\ calls = 0
    /\ ctorIdle
    /\ stateIdle

NextAct == SoloToriEnv_preprocess_action \/ SoloContToriEnv_preprocess_action

SpecAct == InitAct /\ [][NextAct]_vars

\* the injury rewards on every pair of injuries
InitInjury ==
    /\ old_state \in InjuryStates
    /\ new_state \in InjuryStates
    /\ reward = NoReward
    /\ obs = <<>>
    /\ obs_calls = 0
    /\ ctorIdle
    /\ actIdle

NextInjury == reward_self_destruct_call \/ reward_stay_safe_call

SpecInjury == InitInjury /\ [][NextInjury]_vars

\* reward_run_away on every pair of two-player states
InitRunAway ==
    /\ old_state \in RunAwayStates
    /\ new_state \in RunAwayStates
    /\ reward = NoReward
    /\ obs = <<>>
    /\ obs_calls = 0
    /\ ctorIdle
    /\ actIdle

NextRunAway == reward_run_away_call

SpecRunAway == InitRunAway /\ [][NextRunAway]_vars

\* _preprocess_observation of either adapter, called repeatedly on a state
InitObs ==
    /\ env \in {"disc", "cont"}
    /\ new_state \in ObsStates
    /\ old_state = RestingState
    /\ reward = NoReward
    /\ obs = <<>>
    /\ obs_calls = 0
    /\ action = [type |-> "list", data |-> <<>>]
    /\ orig = <<>>
    /\ arg = <<>>
    /\ dual = <<>>
    /\ first_dual = <<>>
    /\ calls = 0
    /\ ctorIdle

NextObs == SoloToriEnv_preprocess_observation \/ SoloContToriEnv_preprocess_observation

SpecObs == InitObs /\ [][NextObs]_vars

----------------------------------------------------------------------------
(* Properties *)

Joints == 1..NUM_JOINTS

Grips == (NUM_JOINTS + 1)..(NUM_JOINTS + NUM_GRIPS)

Zeros(n) == [i \in 1..n |-> 0]

\* C1: after SoloToriEnv._preprocess_action was entered with an action of
\* NUM_JOINTS entries in 0..NUM_JOINT_STATES-1 and two grip flags, the dual
\* action is a pair; its first element has every joint entry one above the
\* entry passed in and the two grip entries as passed in; its second element
\* is NUM_CONTROLLABLES ones.
C1_DiscreteDualAction ==
    (env = "disc" /\ calls >= 1 /\ arg \in DiscreteActions) =>
        /\ Len(dual) = 2
        /\ Len(dual[1]) = NUM_JOINTS + NUM_GRIPS
        /\ \A i \in Joints : dual[1][i] = arg[i] + 1
        /\ \A i \in Grips : dual[1][i] = arg[i]
        /\ Len(dual[2]) = NUM_CONTROLLABLES
        /\ \A i \in 1..Len(dual[2]) : dual[2][i] = 1

\* a list of zeros with both grips set went through the discrete adapter
C1_Witness ==
    /\ env = "disc"
    /\ calls = 1
    /\ \A i \in Joints : arg[i] = 0 /\ dual[1][i] = 1
    /\ \A i \in Grips : arg[i] = 1 /\ dual[1][i] = 1

\* C2: after SoloContToriEnv._preprocess_action was entered with a vector v
\* of NUM_CONTROLLABLES tenths, each of the first NUM_CONTROLLABLES-2 codes
\* is floor(clip(v+1, 0, 4.9)), in 0..4, each of the last two codes is
\* floor(clip(v, 0, 1.9)), in {0,1}; the zero vector gives joint code 1 and
\* grip code 0; player 2 gets NUM_CONTROLLABLES ones.
C2_ContinuousCodes ==
    (env = "cont" /\ calls >= 1) =>
        /\ Len(dual) = 2
        /\ Len(dual[1]) = NUM_CONTROLLABLES
        /\ \A i \in 1..(NUM_CONTROLLABLES - 2) :
              /\ dual[1][i] = Clip(arg[i] + 10, 0, 49) \div 10
              /\ dual[1][i] \in 0..4
        /\ \A i \in (NUM_CONTROLLABLES - 1)..NUM_CONTROLLABLES :
              /\ dual[1][i] = Clip(arg[i], 0, 19) \div 10
              /\ dual[1][i] \in {0, 1}
        /\ (arg = Zeros(NUM_CONTROLLABLES) =>
               /\ \A i \in 1..(NUM_CONTROLLABLES - 2) : dual[1][i] = 1
               /\ \A i \in (NUM_CONTROLLABLES - 1)..NUM_CONTROLLABLES : dual[1][i] = 0)
        /\ dual[2] = Ones(NUM_CONTROLLABLES)

\* a vector with joints clipped from above and from below and a grip at 1.9
\* went through the continuous adapter
C2_Witness ==
    /\ env = "cont"
    /\ calls = 1
    /\ arg[1] = 45 /\ dual[1][1] = 4
    /\ arg[2] = -15 /\ dual[1][2] = 0
    /\ arg[NUM_CONTROLLABLES - 1] = 19 /\ dual[1][NUM_CONTROLLABLES - 1] = 1
    /\ arg[NUM_CONTROLLABLES] = 9 /\ dual[1][NUM_CONTROLLABLES] = 0

\* C3: _preprocess_action leaves the caller's action object as it was
\* created, and every call with that object returns what the first call
\* returned.
C3_ActionUntouched ==
    calls >= 1 => (action.data = orig /\ dual = first_dual)

\* C4: the action space SoloToriEnv.__init__ builds admits exactly the
\* actions of NUM_JOINTS entries in 0..NUM_JOINT_STATES-1 followed by two
\* binary grips, on win32 and elsewhere.
C4_SameActionSpace ==
    (cls = "SoloToriEnv" /\ ctor = "returned") =>
        Admissible(inst["action_space"]) = DiscreteActions

\* C5 as stated: constructing either adapter without reward_func raises
\* the key error as the first effect of construction, with none of
\* reward_func, action_space, observation_space set and nothing retried.
C5_ErrorIsFirstEffect ==
    (ctor # "new" /\ "reward_func" \notin DOMAIN kwargs) =>
        /\ ctor = "raised"
        /\ effects[1] = "KeyError"
        /\ DOMAIN inst \cap {"reward_func", "action_space", "observation_space"} = {}
        /\ ~ENABLED NextCtor

\* C5 amended: constructing either adapter without reward_func raises the
\* key error right after the base constructor ran: the base constructor is
\* the first effect and the error the second and last, no instance is
\* returned, the adapter's constructor has set none of reward_func,
\* action_space, observation_space, and nothing is retried.
C5_ErrorAfterBaseInit ==
    (ctor # "new" /\ "reward_func" \notin DOMAIN kwargs) =>
        /\ ctor = "raised"
        /\ effects = <<"ToriEnv.__init__", "KeyError">>
        /\ DOMAIN inst \cap {"reward_func", "action_space", "observation_space"} = {}
        /\ ~ENABLED NextCtor

\* SoloContToriEnv was constructed with options that lack reward_func
C5_Witness ==
    /\ cls = "SoloContToriEnv"
    /\ DOMAIN kwargs = {"draw_game", "matchframes"}
    /\ ctor = "raised"
    /\ effects[Len(effects)] = "KeyError"

SignOfInt(n) == IF n > 0 THEN 1 ELSE IF n < 0 THEN -1 ELSE 0

\* the sign of a reward: log10(x) has the sign of x - 1
SignOf(v) ==
    IF v.kind = "lin" THEN SignOfInt(v.num)
    ELSE IF v.neg THEN -SignOfInt(v.num - InjuryUnit)
                  ELSE SignOfInt(v.num - InjuryUnit)

InjuryDelta == new_state.plr0_injury - old_state.plr0_injury

\* C6: with d the injury difference new - old, reward_self_destruct is d
\* itself for every d <= 1 (d = 1 and negative d included), log10(d)/4 for
\* every d > 1, and not negative whenever d >= 0.
C6_SelfDestruct ==
    reward.fn = "reward_self_destruct" =>
        /\ InjuryDelta <= InjuryUnit =>
              reward.val = [kind |-> "lin", num |-> InjuryDelta, neg |-> FALSE]
        /\ InjuryDelta > InjuryUnit =>
              reward.val = [kind |-> "log", num |-> InjuryDelta, neg |-> FALSE]
        /\ InjuryDelta >= 0 => SignOf(reward.val) >= 0

\* reward_self_destruct was applied to a difference of exactly 1
C6_Witness ==
    /\ reward.fn = "reward_self_destruct"
    /\ InjuryDelta = InjuryUnit
    /\ reward.val.kind = "lin"
    /\ reward.val.num = InjuryUnit

\* C7: reward_stay_safe is <= 0 whenever plr0_injury increased, by at most
\* 1 or by more, and exactly 0 when plr0_injury is equal in both states.
C7_StaySafe ==
    reward.fn = "reward_stay_safe" =>
        /\ InjuryDelta > 0 => SignOf(reward.val) <= 0
        /\ InjuryDelta = 0 =>
              reward.val = [kind |-> "lin", num |-> 0, neg |-> FALSE]

\* reward_stay_safe was applied to an increase above 1 and log-compressed it
C7_Witness ==
    /\ reward.fn = "reward_stay_safe"
    /\ InjuryDelta > InjuryUnit
    /\ reward.val.kind = "log"
    /\ SignOf(reward.val) = -1

\* the Euclidean norm of a position of the model
Norm(pos) == CHOOSE r \in 0..(3 * 8) : r * r = SumSq(pos)

\* state s with the position of limb l of player p replaced by v
WithLimb(s, p, l, v) == [s EXCEPT !.limb_positions[p][l] = v]

\* C8: reward_run_away is the norm of player 1's head in the new state
\* minus that norm in the old state; no other limb and no limb of player 2
\* changes it; old head (3,4,0) and new head (6,8,0) give 5; it is positive
\* exactly when the head moved farther from the origin.
C8_RunAway ==
    reward.fn = "reward_run_away" =>
        /\ reward.val = Norm(new_state.limb_positions[1][1])
                          - Norm(old_state.limb_positions[1][1])
        /\ \A p \in 1..2 : \A l \in Limbs : \A v \in PosSet :
              (p # 1 \/ l # 1) =>
                  /\ reward_run_away(WithLimb(old_state, p, l, v), new_state) = reward.val
                  /\ reward_run_away(old_state, WithLimb(new_state, p, l, v)) = reward.val
        /\ (/\ old_state.limb_positions[1][1] = <<3, 4, 0>>
            /\ new_state.limb_positions[1][1] = <<6, 8, 0>>) => reward.val = 5
        /\ reward.val > 0 <=>
              SumSq(new_state.limb_positions[1][1]) > SumSq(old_state.limb_positions[1][1])

\* reward_run_away was applied to the heads (3,4,0) and (6,8,0), player 2
\* moving the other way
C8_Witness ==
    /\ reward.fn = "reward_run_away"
    /\ old_state.limb_positions[1][1] = <<3, 4, 0>>
    /\ new_state.limb_positions[1][1] = <<6, 8, 0>>
    /\ old_state.limb_positions[2][1] = <<3, 4, 0>>
    /\ new_state.limb_positions[2][1] = <<1, 2, 2>>
    /\ reward.val = 5

\* state s without the players after the first
OnlyPlayerOne(s) == [s EXCEPT !.limb_positions = <<s.limb_positions[1]>>]

\* the observation either adapter returns for s
ObsOf(e, s) == IF e = "disc" THEN SoloPreprocessObservation(s)
                             ELSE SoloContPreprocessObservation(s)

\* C9: every call of _preprocess_observation, of either adapter, leaves the
\* state as it was and returns NUM_LIMBS*3 numbers, number 3*l+c being
\* coordinate c of limb l of player 1; a state differing in a limb of
\* another player, or without the other players, gives the same
\* observation; and a second call on the state returns what the first did.
C9_Observation ==
    [][obs_calls' = obs_calls + 1 =>
        /\ new_state' = new_state
        /\ Len(obs') = NUM_LIMBS * 3
        /\ \A l \in 0..(NUM_LIMBS - 1) : \A c \in 0..2 :
              obs'[3 * l + c + 1] = new_state.limb_positions[1][l + 1][c + 1]
        /\ \A p \in 2..Len(new_state.limb_positions) : \A l \in Limbs : \A v \in ObsPos :
              ObsOf(env, WithLimb(new_state, p, l, v)) = obs'
        /\ ObsOf(env, OnlyPlayerOne(new_state)) = obs'
        /\ (obs_calls >= 1 => obs' = obs)]_vars

\* the observation was taken twice from a state whose two players differ
C9_Witness ==
    /\ obs_calls = 2
    /\ Len(new_state.limb_positions) = 2
    /\ new_state.limb_positions[1][1] = <<6, 8, 0>>
    /\ new_state.limb_positions[2][1] = <<1, 2, 2>>
    /\ obs[1] = 6 /\ obs[2] = 8 /\ obs[3] = 0

\* the action at entry of the call is one of the adapter's declared space
InDeclaredSpace ==
    IF env = "disc" THEN arg \in DiscreteActions ELSE InContSpace(arg)

\* C10: the dual action built from a freshly created action of the
\* adapter's declared space has NUM_CONTROLLABLES entries for player 1,
\* every joint code in 1..NUM_JOINT_STATES, every grip code in {0,1}, and as
\* many entries for player 2 as for player 1.
C10_WellFormedDualAction ==
    (calls = 1 /\ InDeclaredSpace) =>
        /\ Len(dual[1]) = NUM_CONTROLLABLES
        /\ \A i \in Joints : dual[1][i] \in 1..NUM_JOINT_STATES
        /\ \A i \in Grips : dual[1][i] \in {0, 1}
        /\ Len(dual[2]) = Len(dual[1])

\* the largest action of the continuous space went through the adapter
C10_Witness ==
    /\ env = "cont"
    /\ calls = 1
    /\ \A i \in 1..NUM_CONTROLLABLES : arg[i] = BOX_HIGH
    /\ \A i \in Joints : dual[1][i] = NUM_JOINT_STATES
    /\ \A i \in Grips : dual[1][i] = 1

====
